---- MODULE Spec2Model ----
(***************************************************************************)
(* A model of the queued RCON connection (QueuedRconConnection), its       *)
(* packet codec (RconPacket) and the events that drive it: the public      *)
(* calls connect(), disconnect(), send(), the socket's events (connect,    *)
(* data, error, end) and the response timers.                              *)
(*                                                                         *)
(* Node runs every event callback to completion, and the promise           *)
(* continuations it schedules (the rest of authenticate() and of           *)
(* handleConnect after their await) run before the next event: one action  *)
(* is one callback together with the continuations it wakes.  The handlers *)
(* are operators from a record of the connection's fields to the record    *)
(* after the call, composed in the order the code calls them.              *)
(***************************************************************************)
EXTENDS Integers, Sequences, FiniteSets, TLC

\* ------------------------------------------------------------------ bounds
\* sendPacket calls (AUTH packets and commands) over one behaviour
MaxCmds == 3
\* sockets created (new Socket()) over one behaviour
MaxSockets == 2
\* reply packets collected by one command
MaxData == 2
\* how far from 0, and from the largest int32, the id counter is followed
IdWindow == 40

\* ------------------------------------------------------- program constants
UNKNOWN == -1
SERVERDATA_AUTH == 3
SERVERDATA_AUTH_RESPONSE == 2
SERVERDATA_EXECCOMMAND == 2
SERVERDATA_RESPONSE_VALUE == 0
BOUNDARY == 255
\* the connection's timeout when the option is missing or falsy (ms)
DefaultTimeout == 5000
\* the largest int32, 2 ** 31 - 1: what writeInt32LE accepts as an id
Int32Max == 2147483647
\* 2 ** 31, the value after which nextPacketId wraps: the integers of the
\* checker end at Int32Max, and the one larger value the counter takes is held
\* as its int32 image
TwoTo31 == 0 - Int32Max - 1

\* Time advances in steps of half the default timeout; every timeout of the
\* model is a multiple of it.
TimeUnit == DefaultTimeout \div 2
\* options.timeout left out
Undefined == 0 - 1
\* a type value that is no member of Rcon.PacketType
OtherType == SERVERDATA_AUTH + BOUNDARY

Max(a, b) == IF a >= b THEN a ELSE b
Min(a, b) == IF a <= b THEN a ELSE b

\* ------------------------------------------------------------ packet codec
\* A packet is its buffer's fields: id, type (the int32 at offset 8, as
\* written) and payload.  len tells how much of the buffer exists: "full",
\* "hdr8" (8 to 11 bytes: the id can be read, the type cannot) or "empty"
\* (fewer than 8 bytes: reading the id throws).
NoPacket == [len |-> "null", id |-> 0, type |-> UNKNOWN, payload |-> ""]

RconPacket(id, type, payload) ==
    [len |-> "full", id |-> id, type |-> type, payload |-> payload]

PacketTypeValues ==
    {UNKNOWN, SERVERDATA_AUTH, SERVERDATA_AUTH_RESPONSE, SERVERDATA_EXECCOMMAND,
     SERVERDATA_RESPONSE_VALUE, BOUNDARY}

\* get type(): the value read, or UNKNOWN when it is no member of the enum
PacketType(p) == IF p.type \in PacketTypeValues THEN p.type ELSE UNKNOWN

\* inResponseTo without its comparison of the ids: the types are enough
inResponseToAnyId(this, pkt) ==
    IF pkt = NoPacket THEN FALSE
    ELSE IF PacketType(this) = SERVERDATA_AUTH_RESPONSE
         THEN PacketType(pkt) = SERVERDATA_AUTH
    ELSE IF PacketType(this) = SERVERDATA_RESPONSE_VALUE
         THEN \/ PacketType(pkt) = SERVERDATA_EXECCOMMAND
              \/ PacketType(pkt) = BOUNDARY
    ELSE FALSE

\* inResponseTo without its switch on the types: equal ids are enough
inResponseToIdOnly(this, pkt) ==
    /\ pkt # NoPacket
    /\ pkt.id = this.id

\* this.inResponseTo(pkt)
inResponseTo(this, pkt) ==
    IF pkt = NoPacket THEN FALSE
    ELSE IF pkt.id # this.id THEN FALSE
    ELSE IF PacketType(this) = SERVERDATA_AUTH_RESPONSE
         THEN PacketType(pkt) = SERVERDATA_AUTH
    ELSE IF PacketType(this) = SERVERDATA_RESPONSE_VALUE
         THEN \/ PacketType(pkt) = SERVERDATA_EXECCOMMAND
              \/ PacketType(pkt) = BOUNDARY
    ELSE FALSE

\* this.inResponseTo(pkt) throws a RangeError: readInt32LE past the end of
\* the buffer, at offset 4 (id) or, once the ids are equal, at offset 8 (type)
inResponseToThrows(this, pkt) ==
    /\ pkt # NoPacket
    /\ \/ this.len = "empty"
       \/ this.len = "hdr8" /\ pkt.id = this.id


\* ------------------------------------------------------------------- state
VARIABLES
    optTimeout,         \* options.timeout given to the constructor
    timeout,            \* this.timeout
    socket,             \* this.$socket: gen counts the sockets created, st is
                        \* "null" | "created" | "connecting" | "open" | "destroyed",
                        \* att the connect attempt whose handlers it carries
    connected,          \* this.$connected
    connectPromise,     \* this.$connectPromise: 0 (null) or the attempt's index
    nextPacketId,       \* this.$nextPacketId
    responseTimeoutId,  \* this.$responseTimeoutId: 0 (null) or a timer's index
    queue,              \* this.$queue
    timers,             \* every timer setTimeout created, in creation order
    futures,            \* the promise of each sendPacket call, in call order
    attempts,           \* the promise of each connect attempt, in creation order
    wire,               \* every socket.write call, in order
    waiting,            \* the RconClient.send calls suspended at
                        \* await this.connect(), in call order
    last                \* the call or event handled last: its input, what it
                        \* returned and the promise it settled

vars ==
    <<optTimeout, timeout, socket, connected, connectPromise, nextPacketId,
      responseTimeoutId, queue, timers, futures, attempts, wire, waiting,
      last>>

\* what a call or event settled: no promise yet
NoOut ==
    [cid |-> 0, status |-> "none", err |-> "none", data |-> <<>>, result |-> ""]

\* The connection's fields as one record: the handlers below map the record
\* before a call to the record after it.  out is the promise the call settled
\* (the sendPacket call's index, how it was settled, the packets it was
\* resolved with and the string send() returns for them).
State ==
    [timeout |-> timeout, socket |-> socket, connected |-> connected,
     connectPromise |-> connectPromise, nextPacketId |-> nextPacketId,
     responseTimeoutId |-> responseTimeoutId, queue |-> queue, timers |-> timers,
     futures |-> futures, attempts |-> attempts, wire |-> wire,
     waiting |-> waiting, out |-> NoOut]

\* a timer that can never run again
Dead == [dur |-> 0, rem |-> 0, st |-> "dead", cmd |-> 0]

\* timers with the ones no callback or reference can reach again forgotten:
\* the cleared ones, and the fired ones this.$responseTimeoutId does not name
Collected(S) ==
    [t \in DOMAIN S.timers |->
        IF \/ S.timers[t].st = "cleared"
           \/ S.timers[t].st = "fired" /\ S.responseTimeoutId # t
            THEN Dead ELSE S.timers[t]]

Becomes(S) ==
    /\ timeout' = S.timeout
    /\ socket' = S.socket
    /\ connected' = S.connected
    /\ connectPromise' = S.connectPromise
    /\ nextPacketId' = S.nextPacketId
    /\ responseTimeoutId' = S.responseTimeoutId
    /\ queue' = S.queue
    /\ timers' = Collected(S)
    /\ futures' = S.futures
    /\ attempts' = S.attempts
    /\ wire' = S.wire
    /\ waiting' = S.waiting
    /\ optTimeout' = optTimeout

\* ------------------------------------------------------------- constructor
\* this.timeout = parseInt(String(options.timeout))
\*                  ? Math.max(options.timeout, 0) : 5000
Constructor(opt) ==
    IF opt = Undefined \/ opt = 0 THEN DefaultTimeout ELSE Max(opt, 0)

\* ----------------------------------------------------------------- helpers
\* responses.reduce((response, pkt) => response + pkt.payload, '')
RECURSIVE Concat(_)
Concat(data) ==
    IF data = <<>> THEN "" ELSE Head(data).payload \o Concat(Tail(data))

\* this.$queue.shift()
Shift(S) == [S EXCEPT !.queue = Tail(@)]

\* command.onSuccess(command.data): resolve(packets); send() returns the
\* payloads' concatenation
Resolve(S, command) ==
    [S EXCEPT !.futures[command.cid].status = "resolved",
              !.out = [cid |-> command.cid, status |-> "resolved",
                       err |-> "none", data |-> command.data,
                       result |-> Concat(command.data)]]

\* command.onError(err): reject(err)
Reject(S, command, err) ==
    [S EXCEPT !.futures[command.cid].status = "rejected",
              !.out = [cid |-> command.cid, status |-> "rejected",
                       err |-> err, data |-> <<>>, result |-> ""]]

\* this.$socket.write(buffer): the bytes reach the server when the socket is
\* open; a destroyed socket drops them
Write(S, cid, part, pkt) ==
    [S EXCEPT !.wire = Append(@, [cid |-> cid, part |-> part, id |-> pkt.id,
                                  gen |-> S.socket.gen, st |-> S.socket.st])]

\* get nextPacketId(): the record after the getter ran; the value it returned
\* is the record's nextPacketId
NextPacketId(S) ==
    [S EXCEPT !.nextPacketId = IF @ = TwoTo31 THEN 1
                               ELSE IF @ = Int32Max THEN TwoTo31
                               ELSE @ + 1]

\* ------------------------------------------------------------------ timers
\* setTimeout(..., time): a new timer, and this.$responseTimeoutId names it;
\* cmd remembers the command it was started for (the callback itself only
\* shifts whatever is the head when it runs)
startResponseTimeout(S, time) ==
    IF Len(S.queue) = 0 THEN S
    ELSE [S EXCEPT !.timers = Append(@, [dur |-> time, rem |-> time,
                                         st |-> "active",
                                         cmd |-> Head(S.queue).cid]),
                   !.responseTimeoutId = Len(S.timers) + 1]

\* this.$responseTimeoutId?.refresh(): the timer runs its full duration again
\* from now; a timer that already fired is started again
refreshResponseTimeout(S) ==
    IF S.responseTimeoutId = 0 THEN S
    ELSE [S EXCEPT !.timers[S.responseTimeoutId].rem =
                       S.timers[S.responseTimeoutId].dur,
                   !.timers[S.responseTimeoutId].st = "active"]

clearTimeout(S) ==
    IF S.responseTimeoutId = 0 THEN S
    ELSE [S EXCEPT !.timers[S.responseTimeoutId].st = "cleared",
                   !.timers[S.responseTimeoutId].rem = 0,
                   !.responseTimeoutId = 0]

\* ------------------------------------------------------- connect/disconnect
disconnect(S) ==
    [S EXCEPT !.socket.st = "null", !.socket.att = 0,
              !.connected = FALSE,
              !.connectPromise = 0]

\* handleConnectionError of attempt k: disconnect, then reject the attempt
handleConnectionError(S, k, err) ==
    LET D == disconnect(S)
    IN  IF D.attempts[k].status \in {"resolved", "rejected"} THEN D
        ELSE [D EXCEPT !.attempts[k].status = "rejected",
                       !.attempts[k].err = err]

\* What runs once the promise of sendPacket call cid is settled: nothing more
\* for send() (its result is the future's), and for an AUTH packet the rest of
\* authenticate() and of handleConnect of the attempt that sent it.
Resume(S, cid) ==
    LET f == S.futures[cid]
        k == f.att
        R == IF f.status = "rejected"
                 THEN handleConnectionError(S, k, S.out.err)
             ELSE IF PacketType(S.out.data[1]) # SERVERDATA_AUTH_RESPONSE
                 THEN handleConnectionError(S, k, "auth")
             ELSE [S EXCEPT !.connected = TRUE,
                            !.attempts[k].status = "resolved"]
    IN  IF f.kind = "send" THEN S
        ELSE [R EXCEPT !.connectPromise = 0]


\* --------------------------------------------------------- queue + dispatch
\* queuePacket with unshift for push: the new command goes to the front
queuePacketFront(S, command) ==
    [S EXCEPT !.queue = <<[cid |-> command.cid,
                           packet |-> command.packet,
                           boundary |-> command.boundary,
                           timeout |-> command.timeout,
                           data |-> <<>>,
                           sent |-> FALSE,
                           option |-> command.option,
                           idle |-> 0,
                           expect |-> ""]>> \o @]

queuePacket(S, command) ==
    [S EXCEPT !.queue = Append(@, [cid |-> command.cid,
                                   packet |-> command.packet,
                                   boundary |-> command.boundary,
                                   timeout |-> command.timeout,
                                   data |-> <<>>,
                                   sent |-> FALSE,
                                   option |-> command.option,
                                   idle |-> 0,
                                   expect |-> ""])]

\* The head command's bytes written and its timer started.  Three fields of a
\* command are the model's: option, the options.timeout its caller gave; idle,
\* the time since the command was dispatched or last got a packet in response
\* to its request; and expect, the payloads, in arrival order, of the packets
\* in response to its request that arrived while it was the head.
Dispatch(S) ==
    LET command == Head(S.queue)
        W1 == Write(S, command.cid, "packet", command.packet)
        W2 == IF command.boundary # NoPacket
                  THEN Write(W1, command.cid, "boundary", command.boundary)
                  ELSE W1
        W3 == [W2 EXCEPT !.queue[1].sent = TRUE, !.queue[1].idle = 0]
    IN  startResponseTimeout(W3, command.timeout)

\* processQueue without the test of command.sent
processQueueResend(S) ==
    IF Len(S.queue) > 0 THEN Dispatch(S) ELSE S

processQueue(S) ==
    IF Len(S.queue) > 0 /\ ~Head(S.queue).sent THEN Dispatch(S) ELSE S

\* new RconPacket(id, type, payload) throws: writeInt32LE refuses an id that
\* is no int32
PackThrows(id) == id = TwoTo31

\* sendPacket with a boundary packet that takes the request packet's id
\* instead of an id of its own
sendPacketSameId(S, type, payload, options, kind, att) ==
    LET S1 == NextPacketId(S)
        packet == RconPacket(S1.nextPacketId, type, payload)
        boundary == IF options.multipacket
                        THEN RconPacket(S1.nextPacketId, BOUNDARY, "")
                        ELSE NoPacket
        cid == Len(S.futures) + 1
        S3 == [S1 EXCEPT !.futures =
                  Append(@, [kind |-> kind, att |-> att, status |-> "pending"])]
        S4 == queuePacket(S3, [cid |-> cid, packet |-> packet,
                               boundary |-> boundary,
                               option |-> options.timeout,
                               timeout |-> IF options.timeout # Undefined
                                               THEN options.timeout
                                               ELSE S.timeout])
    IN  IF PackThrows(packet.id)
            THEN Resume(Reject(S3, [cid |-> cid], "range"), cid)
        ELSE processQueue(S4)

\* sendPacket(type, payload, options), called by send() (kind "send") or by
\* authenticate() of attempt att (kind "auth").  options.multipacket FALSE
\* stands for a missing option too.
sendPacket(S, type, payload, options, kind, att) ==
    LET S1 == NextPacketId(S)
        packet == RconPacket(S1.nextPacketId, type, payload)
        S2 == IF options.multipacket /\ ~PackThrows(S1.nextPacketId)
                  THEN NextPacketId(S1) ELSE S1
        boundary == IF options.multipacket
                        THEN RconPacket(S2.nextPacketId, BOUNDARY, "")
                        ELSE NoPacket
        thrown == \/ PackThrows(packet.id)
                  \/ options.multipacket /\ PackThrows(boundary.id)
        cid == Len(S.futures) + 1
        S3 == [S2 EXCEPT !.futures =
                  Append(@, [kind |-> kind, att |-> att, status |-> "pending"])]
        S4 == queuePacket(S3, [cid |-> cid, packet |-> packet,
                               boundary |-> boundary,
                               option |-> options.timeout,
                               timeout |-> IF options.timeout # Undefined
                                               THEN options.timeout
                                               ELSE S.timeout])
    IN  IF thrown
            THEN Resume(Reject(S3, [cid |-> cid], "range"), cid)
        ELSE processQueue(S4)

\* ---------------------------------------------------------------- handlers
\* handleData, lines 245-250: a packet in response to the head's request is
\* collected and refreshes the timer
Collect(S, response) ==
    IF inResponseTo(response, Head(S.queue).packet)
        THEN refreshResponseTimeout(
                 [S EXCEPT !.queue[1].data = Append(@, response),
                           !.queue[1].idle = 0])
        ELSE S

\* the completion test of a connection that takes the first packet in
\* response to the request as the last, boundary or not
CompletesOnFirst(command, response) ==
    inResponseTo(response, command.packet)

\* the completion test without its single-packet branch
CompletesOnBoundaryOnly(command, response) ==
    inResponseTo(response, command.boundary)

\* handleData, lines 251-261: the packet completes the command
Completes(command, response) ==
    IF command.boundary # NoPacket
        THEN inResponseTo(response, command.boundary)
        ELSE inResponseTo(response, command.packet)

\* handleData, lines 244-253: reading the chunk throws
Throws(command, response) ==
    \/ inResponseToThrows(response, command.packet)
    \/ inResponseToThrows(response, command.boundary)

\* handleData(buffer), with the continuation of the promise it settles
handleData(S, response) ==
    IF Len(S.queue) = 0 THEN S
    ELSE
    LET command == Head(S.queue)
        threw == Throws(command, response)
        S1 == IF threw THEN S ELSE Collect(S, response)
        done == ~threw /\ Completes(command, response)
        finished == done \/ threw
        S2 == IF done THEN Resolve(Shift(S1), Head(S1.queue))
              ELSE IF threw THEN Reject(Shift(S1), command, "decode")
              ELSE S1
        S3 == IF finished THEN clearTimeout(S2) ELSE S2
        S4 == processQueue(S3)
    IN  IF finished THEN Resume(S4, command.cid) ELSE S4

\* handleError(err), with the continuation of the promise it rejects
handleError(S) ==
    IF Len(S.queue) = 0 THEN S
    ELSE Resume(Reject(Shift(S), Head(S.queue), "socket"), Head(S.queue).cid)

\* the callback startResponseTimeout gave to setTimeout
timeoutCallback(S) ==
    IF Len(S.queue) = 0 THEN S
    ELSE Resume(Reject(Shift(S), Head(S.queue), "timeout"), Head(S.queue).cid)

\* connect(): a fresh socket when there is none or it is destroyed; then the
\* in-flight promise, or nothing more when connected, or a new attempt whose
\* handlers go on the socket before socket.connect(...)
connectSocket(S) ==
    IF S.socket.st \in {"null", "destroyed"}
        THEN [S EXCEPT !.socket = [gen |-> @.gen + 1, st |-> "created",
                                   att |-> 0],
                       !.connected = FALSE]
        ELSE S

connect(S) ==
    LET S1 == connectSocket(S)
        k == Len(S1.attempts) + 1
    IN  IF S1.connectPromise # 0 THEN S1
        ELSE IF S1.connected THEN S1
        ELSE [S1 EXCEPT !.attempts = Append(@, [status |-> "connecting",
                                                err |-> "none",
                                                gen |-> S1.socket.gen]),
                        !.connectPromise = k,
                        !.socket.st = "connecting",
                        !.socket.att = k]

\* the promise connect() returns: the attempt's index, or 0 for the plain
\* return of a connected connection
connectReturns(S) ==
    LET S1 == connectSocket(S)
    IN  IF S1.connectPromise # 0 THEN S1.connectPromise
        ELSE IF S1.connected THEN 0
        ELSE Len(S1.attempts) + 1

\* handleConnect: the socket is open; authenticate() sends the AUTH packet
handleConnect(S) ==
    LET k == S.socket.att
        S1 == [S EXCEPT !.socket.st = "open",
                        !.attempts[k].status = "authenticating"]
    IN  sendPacket(S1, SERVERDATA_AUTH, "password",
                   [multipacket |-> FALSE, timeout |-> Undefined], "auth", k)

\* send(cmd, options) without the test of this.$connected
sendUnchecked(S, options) ==
    sendPacket(S, SERVERDATA_EXECCOMMAND, "cmd", options, "send", 0)

\* send(cmd, options): throws, changing nothing, unless connected
send(S, options) ==
    IF ~S.connected THEN S
    ELSE sendPacket(S, SERVERDATA_EXECCOMMAND, "cmd", options, "send", 0)

sendThrows(S) == ~S.connected

\* --------------------------------------------------------------- RconClient
\* { ...options, multipacket: true }: what RconClient.send hands to
\* connection.send
clientSendOptions(options) ==
    [multipacket |-> TRUE, timeout |-> options.timeout]

\* RconClient.send(cmd, options): await this.connect(), then
\* connection.send.  A connect() that returned without a promise lets the call
\* go on at once; otherwise the call waits for the attempt.
clientSend(S, options) ==
    LET k == connectReturns(S)
        S1 == connect(S)
    IN  IF k = 0 THEN send(S1, clientSendOptions(options))
        ELSE [S1 EXCEPT !.waiting = Append(@, [att |-> k, options |-> options])]

\* The RconClient.send calls whose attempt is settled go on, in call order:
\* with connection.send after a resolved attempt, with the attempt's error
\* after a rejected one.
RECURSIVE Wake(_)
Wake(S) ==
    LET due == {i \in DOMAIN S.waiting :
                   S.attempts[S.waiting[i].att].status \in {"resolved", "rejected"}}
        i == CHOOSE j \in due : \A h \in due : j <= h
        w == S.waiting[i]
        S1 == [S EXCEPT !.waiting = SubSeq(@, 1, i - 1) \o SubSeq(@, i + 1, Len(@))]
    IN  IF due = {} THEN S
        ELSE IF S.attempts[w.att].status = "resolved"
            THEN Wake([send(S1, clientSendOptions(w.options)) EXCEPT !.out = S.out])
        ELSE Wake(S1)


\* ------------------------------------------------------------------ inputs
\* options.timeout of the constructor
OptTimeouts == {Undefined, 0, TimeUnit}

\* options of send(): multipacket FALSE stands for a missing option too
SendOptions == [multipacket : BOOLEAN, timeout : {Undefined, 0}]
NoOptions == [multipacket |-> FALSE, timeout |-> Undefined]

\* options of RconClient.send(): multipacket given as true or as false, or
\* left out
ClientSendOptions ==
    [multipacket : BOOLEAN, timeout : {Undefined}] \cup [timeout : {Undefined}]

Payloads == {"a", "b"}

\* The ids a chunk may carry: those of the head command's packets, one id
\* that is not the head's (the first one allocated, or the last) and the id
\* of the packet written last for a send() command that has left the queue,
\* the id of a late reply.  handleData compares a chunk's id with the head's
\* packets only, so every other id acts like these.
ChunkIds(S) ==
    LET mine == IF Len(S.queue) = 0 THEN {}
                ELSE {Head(S.queue).packet.id, Head(S.queue).boundary.id} \ {0}
        allocated == 1 .. S.nextPacketId
        gone == {S.wire[i].id : i \in {j \in DOMAIN S.wire :
                     /\ S.futures[S.wire[j].cid].kind = "send"
                     /\ S.futures[S.wire[j].cid].status # "pending"}} \ mine
        late == {m \in gone : \A g \in gone : g <= m}
    IN  mine \cup late
             \cup (IF 1 \in allocated \ mine THEN {1}
                   ELSE IF S.nextPacketId \in allocated \ mine
                       THEN {S.nextPacketId}
                   ELSE {})

\* The chunks a server may send: whole packets of a reply type, one packet of
\* a type outside the enum, and buffers too short to hold a packet.  Only the
\* payload of a RESPONSE_VALUE varies.
Chunks(S) ==
    LET ids == ChunkIds(S)
    IN  {RconPacket(i, SERVERDATA_RESPONSE_VALUE, p) : i \in ids, p \in Payloads}
        \cup {RconPacket(i, SERVERDATA_AUTH_RESPONSE, "") : i \in ids}
        \cup {[len |-> "hdr8", id |-> i, type |-> 0, payload |-> ""] : i \in ids}
        \cup {RconPacket(1, OtherType, "")}
        \cup {[len |-> "empty", id |-> 0, type |-> 0, payload |-> ""]}

NoChunk == NoPacket

\* no command
NoCommand ==
    [cid |-> 0, packet |-> NoPacket, boundary |-> NoPacket, timeout |-> 0,
     data |-> <<>>, sent |-> FALSE, option |-> Undefined, idle |-> 0,
     expect |-> ""]

\* the head of the queue
HeadOf(q) == IF Len(q) = 0 THEN NoCommand ELSE Head(q)

\* the record of a call or event, kept in last: ret is the promise connect()
\* returned (for a timer, the command it was started for), ok whether send()
\* got past its test (for RconClient.send, whether it went on without waiting),
\* head the command that was the head when a socket event or a timer came,
\* out the promise settled
Did(op, ret, ok, chunk, options, head, out) ==
    [op |-> op, ret |-> ret, ok |-> ok, chunk |-> chunk, options |-> options,
     head |-> head, out |-> out]

\* ------------------------------------------------------------------ actions
Init ==
    /\ optTimeout \in OptTimeouts
    /\ timeout = Constructor(optTimeout)
    /\ socket = [gen |-> 0, st |-> "null", att |-> 0]
    /\ connected = FALSE
    /\ connectPromise = 0
    /\ nextPacketId = 0
    /\ responseTimeoutId = 0
    /\ queue = <<>>
    /\ timers = <<>>
    /\ futures = <<>>
    /\ attempts = <<>>
    /\ wire = <<>>
    /\ waiting = <<>>
    /\ last = Did("new", 0, TRUE, NoChunk, NoOptions, NoCommand, NoOut)

\* a call of connect()
Connect ==
    /\ socket.st \in {"null", "destroyed"} => socket.gen < MaxSockets
    /\ Becomes(connect(State))
    /\ last' = Did("connect", connectReturns(State), TRUE, NoChunk, NoOptions,
                   NoCommand, NoOut)

\* a call of disconnect()
Disconnect ==
    /\ Becomes(disconnect(State))
    /\ last' = Did("disconnect", 0, TRUE, NoChunk, NoOptions, NoCommand, NoOut)

\* a call of send(cmd, options)
Send ==
    \E options \in SendOptions :
        LET R == send(State, options)
        IN  /\ connected => Len(futures) + Len(waiting) < MaxCmds
            /\ Becomes(R)
            /\ last' = Did("send", 0, ~sendThrows(State), NoChunk, options,
                           NoCommand, R.out)

\* a call of RconClient.send(cmd, options)
ClientSend ==
    \E options \in ClientSendOptions :
        LET R == clientSend(State, options)
        IN  /\ socket.st \in {"null", "destroyed"} => socket.gen < MaxSockets
            /\ Len(futures) + Len(waiting) < MaxCmds
            /\ Becomes(R)
            /\ last' = Did("clientSend", connectReturns(State),
                           connectReturns(State) = 0, NoChunk, options,
                           NoCommand, R.out)

\* the socket's 'connect' event: handleConnect
SocketConnect ==
    LET R == handleConnect(State)
    IN  /\ socket.st = "connecting"
        /\ Len(futures) + Len(waiting) < MaxCmds
        /\ Becomes(Wake(R))
        /\ last' = Did("open", 0, TRUE, NoChunk, NoOptions, NoCommand, R.out)

\* the queue with the chunk's payload appended to what the head command is
\* expected to return, when the chunk is a whole packet in response to the
\* head's request packet
Expecting(q, chunk) ==
    IF /\ Len(q) > 0
       /\ ~inResponseToThrows(chunk, Head(q).packet)
       /\ inResponseTo(chunk, Head(q).packet)
        THEN [q EXCEPT ![1].expect = @ \o chunk.payload]
        ELSE q

\* the socket's 'data' event: handleData(chunk)
SocketData ==
    \E chunk \in Chunks(State) :
        LET R == handleData([State EXCEPT !.queue = Expecting(@, chunk)], chunk)
        IN  /\ socket.st = "open"
            /\ Len(queue) > 0 /\ Len(Head(queue).data) >= MaxData
                   => ~inResponseTo(chunk, Head(queue).packet)
            /\ Becomes(Wake(R))
            /\ last' = Did("data", 0, TRUE, chunk, NoOptions, HeadOf(queue),
                           R.out)

\* the socket's 'error' event; the socket is destroyed when its handler runs:
\* handleConnectionError until the socket is open, handleError after
SocketError ==
    LET S == [State EXCEPT !.socket.st = "destroyed"]
        R == IF socket.st = "connecting"
                 THEN handleConnectionError(S, socket.att, "socket")
                 ELSE handleError(S)
    IN  /\ socket.st \in {"connecting", "open"}
        /\ Becomes(Wake(R))
        /\ last' = Did("error", 0, TRUE, NoChunk, NoOptions, HeadOf(queue),
                       R.out)

\* the socket's 'end' event: disconnect()
SocketEnd ==
    /\ socket.st = "open"
    /\ Becomes(disconnect(State))
    /\ last' = Did("end", 0, TRUE, NoChunk, NoOptions, NoCommand, NoOut)

\* a timer is due: its callback runs
TimerFire ==
    \E t \in DOMAIN timers :
        LET R == timeoutCallback([State EXCEPT !.timers[t].st = "fired"])
        IN  /\ timers[t].st = "active"
            /\ timers[t].rem = 0
            /\ Becomes(Wake(R))
            /\ last' = Did("timer", timers[t].cmd, TRUE, NoChunk, NoOptions,
                           HeadOf(queue), R.out)

\* time passes by one unit, unless a timer is due
Tick ==
    /\ \A t \in DOMAIN timers : timers[t].st = "active" => timers[t].rem > 0
    /\ Becomes([State EXCEPT
           !.timers = [t \in DOMAIN timers |->
                          IF timers[t].st = "active"
                              THEN [timers[t] EXCEPT !.rem = @ - TimeUnit]
                              ELSE timers[t]],
           !.queue = [i \in DOMAIN queue |->
                          IF queue[i].sent
                              THEN [queue[i] EXCEPT
                                       !.idle = Min(@ + TimeUnit, DefaultTimeout)]
                              ELSE queue[i]]])
    /\ last' = Did("tick", 0, TRUE, NoChunk, NoOptions, NoCommand, NoOut)

Next ==
    \/ Connect
    \/ Disconnect
    \/ Send
    \/ ClientSend
    \/ SocketConnect
    \/ SocketData
    \/ SocketError
    \/ SocketEnd
    \/ TimerFire
    \/ Tick

Spec == Init /\ [][Next]_vars

\* ------------------------------------------------- an authenticated client
\* The connection as connect() leaves it when it resolves for the first time:
\* the first socket open, the AUTH packet (id 1) answered, the queue empty and
\* no timer set, on a connection built without a timeout option.  The logs of
\* calls, writes and timers start empty here.
LiveInit ==
    /\ optTimeout = Undefined
    /\ timeout = Constructor(optTimeout)
    /\ socket = [gen |-> 1, st |-> "open", att |-> 1]
    /\ connected = TRUE
    /\ connectPromise = 0
    /\ nextPacketId = 1
    /\ responseTimeoutId = 0
    /\ queue = <<>>
    /\ timers = <<>>
    /\ futures = <<>>
    /\ attempts = <<[status |-> "resolved", err |-> "none", gen |-> 1]>>
    /\ wire = <<>>
    /\ waiting = <<>>
    /\ last = Did("new", 0, TRUE, NoChunk, NoOptions, NoCommand, NoOut)

\* a command was rejected
Failed == \E c \in DOMAIN futures : futures[c].status = "rejected"

\* A caller that gives no timeout of its own to send() (every command has the
\* connection's positive timeout) and that submits no further command once
\* one has failed, and a server that sends nothing more from then on.  The
\* caller may still connect and disconnect, and the socket may still open,
\* fail or end.
LiveNext ==
    \/ Connect
    \/ Disconnect
    \/ ~Failed /\ Send /\ last'.options.timeout = Undefined
    \/ SocketConnect
    \/ ~Failed /\ SocketData
    \/ SocketError
    \/ SocketEnd
    \/ TimerFire
    \/ Tick

\* Node runs the callback of a timer that is due, and time passes: a due timer
\* fires, and a pending timer comes due.
LiveSpec ==
    LiveInit /\ [][LiveNext]_vars /\ WF_vars(TimerFire) /\ WF_vars(Tick)

\* ------------------------------------------- a reconnect on a quiet network
\* The caller connects, sends, disconnects the first socket and connects
\* again; the network raises no 'error' and no 'end', and the caller never
\* disconnects the second socket.  Whatever destroys the second socket is
\* then a disconnect() the connection itself called.
ReconnectNext ==
    \/ Connect
    \/ socket.gen = 1 /\ Disconnect
    \/ Send
    \/ SocketConnect
    \/ SocketData
    \/ TimerFire
    \/ Tick

ReconnectSpec == Init /\ [][ReconnectNext]_vars

\* ------------------------------------------------------ the id counter alone
\* The getter nextPacketId on its own.  $nextPacketId starts at a value it
\* holds at some time in a connection's life, a few reads after construction
\* or a few reads before the largest int32, and the getter is read again and
\* again.
IdStarts == (0 .. IdWindow) \cup {Int32Max - d : d \in 0 .. IdWindow}

IdInit ==
    /\ optTimeout = Undefined
    /\ timeout = Constructor(optTimeout)
    /\ socket = [gen |-> 0, st |-> "null", att |-> 0]
    /\ connected = FALSE
    /\ connectPromise = 0
    /\ nextPacketId \in IdStarts
    /\ responseTimeoutId = 0
    /\ queue = <<>>
    /\ timers = <<>>
    /\ futures = <<>>
    /\ attempts = <<>>
    /\ wire = <<>>
    /\ waiting = <<>>
    /\ last = Did("new", 0, TRUE, NoChunk, NoOptions, NoCommand, NoOut)

\* one read of this.nextPacketId: last.ret is the id it returned, last.ok
\* whether new RconPacket(id, ...) can write it into the packet
AllocateId ==
    LET R == NextPacketId(State)
    IN  /\ nextPacketId \in IdStarts \/ nextPacketId = TwoTo31
        /\ nextPacketId # IdWindow
        /\ Becomes(R)
        /\ last' = Did("id", R.nextPacketId, ~PackThrows(R.nextPacketId),
                       NoChunk, NoOptions, NoCommand, NoOut)

IdNext == AllocateId

IdSpec == IdInit /\ [][IdNext]_vars

\* ---------------------------------------------------------- the codec alone
\* RconPacket.inResponseTo on its own: two packets are drawn, the reply and
\* the request, and the method is called on them.  The raw type at offset 8
\* is any member of the enum or a value outside it; the request may be null.
CodecPackets ==
    {RconPacket(i, t, "") : i \in {1, 2}, t \in PacketTypeValues \cup {OtherType}}

CodecInit ==
    /\ optTimeout = Undefined
    /\ timeout = Constructor(optTimeout)
    /\ socket = [gen |-> 0, st |-> "null", att |-> 0]
    /\ connected = FALSE
    /\ connectPromise = 0
    /\ nextPacketId = 0
    /\ responseTimeoutId = 0
    /\ queue = <<>>
    /\ timers = <<>>
    /\ futures = <<>>
    /\ attempts = <<>>
    /\ wire = <<>>
    /\ waiting = <<>>
    /\ \E reply \in CodecPackets, request \in CodecPackets \cup {NoPacket} :
           last = Did("packets", 0, FALSE, reply, NoOptions,
                      [NoCommand EXCEPT !.packet = request], NoOut)

\* reply.inResponseTo(request): last.ok is what it returned
CallInResponseTo ==
    /\ last.op = "packets"
    /\ last' = [last EXCEPT !.op = "inResponseTo",
                            !.ok = inResponseTo(last.chunk, last.head.packet)]
    /\ UNCHANGED <<optTimeout, timeout, socket, connected, connectPromise,
                   nextPacketId, responseTimeoutId, queue, timers, futures,
                   attempts, wire, waiting>>

CodecNext == CallInResponseTo

CodecSpec == CodecInit /\ [][CodecNext]_vars

\* ------------------------------------------------------------------ sanity
TypeOK ==
    /\ socket.st \in {"null", "created", "connecting", "open", "destroyed"}
    /\ connected \in BOOLEAN
    /\ connectPromise \in 0 .. Len(attempts)
    /\ responseTimeoutId \in 0 .. Len(timers)
    /\ \A t \in DOMAIN timers : timers[t].rem \in {0, TimeUnit, DefaultTimeout}

\* socket.write is never called on a null socket
WriteHasSocket == \A i \in DOMAIN wire : wire[i].st # "null"

\* socket.connect() is called once per socket
OneAttemptPerSocket ==
    \A j, k \in DOMAIN attempts : attempts[j].gen = attempts[k].gen => j = k


\* ------------------------------------------------------------------ claims
Settled(c) == futures[c].status # "pending"

\* C1: commands complete in submission order.  Of two sendPacket calls the
\* connection accepted (send() calls, and the AUTH packets queued with them),
\* the later one's promise is never settled while the earlier one's is still
\* pending.
C1_SubmissionOrder ==
    \A a, b \in DOMAIN futures : a < b /\ Settled(b) => Settled(a)

\* two send() calls, both settled, the later one by a reply
C1_Witness ==
    \E a, b \in DOMAIN futures :
        /\ a < b
        /\ futures[a].kind = "send" /\ futures[b].kind = "send"
        /\ Settled(a)
        /\ futures[b].status = "resolved"

\* C2: at most one command is in flight.  Only the head of the queue is ever
\* sent; a command written to the socket and still queued is the head, so no
\* command submitted before it is still in the queue; and no packet of a
\* command is written twice.
C2_OneInFlight ==
    /\ \A i \in DOMAIN queue : queue[i].sent => i = 1
    /\ \A w \in DOMAIN wire, i \in DOMAIN queue :
           /\ queue[i].cid = wire[w].cid => i = 1 /\ queue[i].sent
           /\ queue[i].cid >= wire[w].cid
    /\ \A v, w \in DOMAIN wire :
           wire[v].cid = wire[w].cid /\ wire[v].part = wire[w].part => v = w

\* a written command at the head with an unwritten command waiting behind it
C2_Witness ==
    /\ Len(queue) >= 2
    /\ queue[1].sent /\ ~queue[2].sent
    /\ \E w \in DOMAIN wire : wire[w].cid = queue[1].cid
    /\ \A w \in DOMAIN wire : wire[w].cid # queue[2].cid


\* C3: a command with a boundary packet is resolved only by a chunk that is in
\* response to its boundary packet, and send() then returns the payloads, in
\* arrival order, of the packets in response to its request that arrived
\* before that chunk; the payload of the chunk itself is no part of it.
C3_MultiPacket ==
    /\ last.out.status = "resolved" =>
           last.op = "data" /\ last.out.cid = last.head.cid
    /\ last.out.status = "resolved" /\ last.head.boundary # NoPacket =>
           /\ inResponseTo(last.chunk, last.head.boundary)
           /\ last.out.result = last.head.expect

\* send() returned "ab" for two replies and a boundary reply with a payload
C3_Witness ==
    /\ last.op = "data"
    /\ last.out.status = "resolved"
    /\ last.head.boundary # NoPacket
    /\ last.chunk.payload # ""
    /\ last.out.result = "ab"

\* C4: a command without a boundary packet is resolved by the first whole
\* packet in response to its request, and send() returns that packet's
\* payload; a whole packet that is not in response to the request neither
\* settles the command nor adds to what it collected.
C4_SinglePacket ==
    /\ last.out.status = "resolved" /\ last.head.boundary = NoPacket =>
           /\ last.op = "data" /\ last.out.cid = last.head.cid
           /\ inResponseTo(last.chunk, last.head.packet)
           /\ last.head.expect = ""
           /\ last.out.result = last.chunk.payload
    /\ /\ last.op = "data" /\ last.chunk.len = "full"
       /\ last.head # NoCommand /\ last.head.boundary = NoPacket
       => IF inResponseTo(last.chunk, last.head.packet)
              THEN last.out.status = "resolved" /\ last.out.cid = last.head.cid
              ELSE /\ last.out.status = "none"
                   /\ Len(queue) > 0
                   /\ Head(queue).cid = last.head.cid
                   /\ Head(queue).data = last.head.data

\* send() without multipacket returned the payload of the one reply
C4_Witness ==
    /\ last.op = "data"
    /\ last.out.status = "resolved"
    /\ last.head.boundary = NoPacket
    /\ last.head.packet.type = SERVERDATA_EXECCOMMAND
    /\ last.out.result = "b"

\* C7: send() on a connection that is not connected throws and changes
\* nothing: the queue, the id counter, the socket's writes and the timers are
\* as before.
C7_NotConnected ==
    [][last'.op = "send" /\ ~connected =>
          /\ ~last'.ok
          /\ UNCHANGED <<queue, nextPacketId, wire, timers, responseTimeoutId,
                         futures, socket, connected, connectPromise, attempts,
                         timeout>>]_vars

\* send() refused while the AUTH packet waits for its reply
C7_Witness ==
    /\ last.op = "send" /\ ~last.ok
    /\ socket.st = "open"
    /\ Len(queue) > 0 /\ queue[1].packet.type = SERVERDATA_AUTH


\* C5: timeout refresh.  A packet in response to the request of a dispatched
\* head with timeout T > 0 sets the deadline to T after its arrival, and a
\* dispatched command is rejected with a timeout error only when T has passed
\* since it was dispatched or last got such a packet.
C5_TimeoutRefresh ==
    /\ /\ last.op = "data" /\ last.head.sent /\ last.head.timeout > 0
       /\ last.chunk.len = "full"
       /\ inResponseTo(last.chunk, last.head.packet)
       /\ Len(queue) > 0 /\ Head(queue).cid = last.head.cid
       => /\ responseTimeoutId # 0
          /\ timers[responseTimeoutId].st = "active"
          /\ timers[responseTimeoutId].rem = last.head.timeout
    /\ /\ last.op = "timer" /\ last.out.err = "timeout"
       /\ last.head.sent /\ last.head.timeout > 0
       => last.head.idle >= last.head.timeout

\* the timeout the command's caller asked for is 0: options.timeout of send()
\* is 0, or it is missing and the connection was configured with timeout 0
ZeroTimeout(command) ==
    \/ command.option = 0
    \/ command.option = Undefined /\ optTimeout = 0

\* C6: a timeout of 0 disables the timeout.  No timer runs for a dispatched
\* command whose timeout is 0, and no such command is rejected with a timeout
\* error.
C6_ZeroDisablesTimeout ==
    /\ \A t \in DOMAIN timers, i \in DOMAIN queue :
           timers[t].st = "active" /\ timers[t].cmd = queue[i].cid
               => ~ZeroTimeout(queue[i])
    /\ last.op = "timer" /\ last.out.err = "timeout" => ~ZeroTimeout(last.head)

\* C8: connect() is idempotent.  Called while an attempt is in flight it
\* returns that attempt's promise, calls socket.connect() on no socket and
\* writes nothing; called while connected it returns at once, with the socket,
\* the writes and the queue as they were.
C8_ConnectIdempotent ==
    [][last'.op = "connect" =>
          /\ connectPromise # 0 =>
                 /\ last'.ret = connectPromise
                 /\ connectPromise' = connectPromise
                 /\ attempts' = attempts
                 /\ wire' = wire
          /\ connectPromise = 0 /\ connected =>
                 /\ last'.ret = 0
                 /\ attempts' = attempts
                 /\ socket' = socket
                 /\ wire' = wire
                 /\ queue' = queue]_vars

\* C9: connected is true only when the attempt that opened the current socket
\* was resolved (its AUTH packet answered by an AUTH_RESPONSE), and never
\* while an attempt is connecting or authenticating.
C9_ConnectedMeansAuthenticated ==
    connected =>
        /\ connectPromise = 0
        /\ socket.att # 0
        /\ attempts[socket.att].status = "resolved"

\* C10: a RESPONSE_VALUE carrying the id of the AUTH packet that waits at the
\* head rejects that attempt's connect() with the authentication error, tears
\* the connection down and leaves connected false.
C10_WrongReplyType ==
    /\ last.op = "data"
    /\ last.head.sent
    /\ last.head.packet.type = SERVERDATA_AUTH
    /\ last.chunk.len = "full"
    /\ last.chunk.type = SERVERDATA_RESPONSE_VALUE
    /\ last.chunk.id = last.head.packet.id
    => /\ attempts[futures[last.head.cid].att].status = "rejected"
       /\ attempts[futures[last.head.cid].att].err = "auth"
       /\ socket.st = "null"
       /\ ~connected

\* C11: after disconnect() returned the socket is closed, connected is false,
\* no connect attempt is in flight and the queue is empty.
C11_DisconnectDropsQueue ==
    last.op = "disconnect" =>
        /\ socket.st = "null"
        /\ ~connected
        /\ connectPromise = 0
        /\ queue = <<>>

\* C12: RconClient.send(cmd, {multipacket: false}) queues a command without a
\* boundary packet, and with the option true or left out it queues one with a
\* boundary packet.
C12_MultipacketOff ==
    last.op = "clientSend" /\ last.ok =>
        /\ Len(queue) > 0
        /\ (queue[Len(queue)].boundary = NoPacket
               <=> /\ "multipacket" \in DOMAIN last.options
                   /\ ~last.options.multipacket)

\* C13: right after a socket 'error' event, a socket 'end' event or a call of
\* disconnect() was handled, connected is false.
C13_EventsDisconnect ==
    last.op \in {"error", "end", "disconnect"} => ~connected

\* C14: reply.inResponseTo(request) is true exactly when the ids are equal and
\* the types pair as AUTH_RESPONSE to AUTH, or RESPONSE_VALUE to EXECCOMMAND
\* or BOUNDARY; it is false for different ids, for a reply whose type decodes
\* to UNKNOWN and for a request of type UNKNOWN.
C14_InResponseTo ==
    last.op = "inResponseTo" =>
        LET reply == last.chunk
            request == last.head.packet
        IN  /\ last.ok <=>
                   /\ reply.id = request.id
                   /\ \/ /\ PacketType(reply) = SERVERDATA_AUTH_RESPONSE
                         /\ PacketType(request) = SERVERDATA_AUTH
                      \/ /\ PacketType(reply) = SERVERDATA_RESPONSE_VALUE
                         /\ PacketType(request)
                                \in {SERVERDATA_EXECCOMMAND, BOUNDARY}
            /\ reply.id # request.id => ~last.ok
            /\ PacketType(reply) = UNKNOWN => ~last.ok
            /\ PacketType(request) = UNKNOWN => ~last.ok

\* a RESPONSE_VALUE found to be in response to a BOUNDARY packet of its id
C14_Witness ==
    /\ last.op = "inResponseTo"
    /\ last.ok
    /\ last.chunk.type = SERVERDATA_RESPONSE_VALUE
    /\ last.head.packet.type = BOUNDARY

\* C15: at most one timer is pending and it is the one started for the
\* current head of the queue; a timer that fires rejects only the command it
\* was started for, and only a command that was written to the socket.
C15_OneTimerForHead ==
    /\ Cardinality({t \in DOMAIN timers : timers[t].st = "active"}) <= 1
    /\ \A t \in DOMAIN timers :
           timers[t].st = "active" =>
               Len(queue) > 0 /\ timers[t].cmd = Head(queue).cid
    /\ last.op = "timer" /\ last.out.status = "rejected" =>
           last.ret = last.out.cid /\ last.head.sent

\* C16: when a timer fires and rejects the head with the timeout error, the
\* command queued behind it is the head, written to the socket, with a timer
\* of its own running, by the end of that callback.
C16_TimeoutDispatchesNext ==
    last.op = "timer" /\ last.out.err = "timeout" /\ Len(queue) > 0 =>
        /\ Head(queue).sent
        /\ \E w \in DOMAIN wire : wire[w].cid = Head(queue).cid
        /\ \E t \in DOMAIN timers :
               timers[t].st = "active" /\ timers[t].cmd = Head(queue).cid

\* command c is queued behind a head that a socket error just removed, and
\* the timeouts of that head and of every queued command are positive
BehindError(c) ==
    /\ last.op = "error"
    /\ last.out.status = "rejected"
    /\ last.head.timeout > 0
    /\ \E i \in DOMAIN queue : queue[i].cid = c
    /\ \A i \in DOMAIN queue : queue[i].timeout > 0

\* C17: every command left in the queue by a socket error that removed the
\* head is settled later on, when the timeouts are positive and no send()
\* call and no inbound chunk follows the error.
C17_ErrorLeavesRest ==
    \A c \in 1 .. MaxCmds :
        BehindError(c) ~> (c \in DOMAIN futures /\ Settled(c))

\* C18, as stated: the boundary packet of a command carries the id of the
\* command's request packet.
C18_BoundarySameId ==
    \A i \in DOMAIN queue :
        queue[i].boundary # NoPacket =>
            queue[i].boundary.id = queue[i].packet.id

\* C18, amended: the boundary packet of a command carries the id allocated
\* right after the request packet's, the request's id plus one, in the queue
\* and on the socket; it never carries the request's id.
C18_BoundaryNextId ==
    /\ \A i \in DOMAIN queue :
           queue[i].boundary # NoPacket =>
               /\ queue[i].boundary.id = queue[i].packet.id + 1
               /\ queue[i].boundary.id # queue[i].packet.id
    /\ \A v, w \in DOMAIN wire :
           /\ wire[v].cid = wire[w].cid
           /\ wire[v].part = "packet" /\ wire[w].part = "boundary"
           => wire[w].id = wire[v].id + 1

\* a command's request and boundary packets, both written
C18_Witness ==
    /\ Len(queue) > 0
    /\ queue[1].sent
    /\ queue[1].boundary # NoPacket
    /\ \E v, w \in DOMAIN wire :
           /\ wire[v].cid = queue[1].cid /\ wire[v].part = "packet"
           /\ wire[w].cid = queue[1].cid /\ wire[w].part = "boundary"
           /\ wire[v].id = queue[1].packet.id
           /\ wire[w].id = queue[1].boundary.id

\* C19: every id the counter hands out is a positive int32, 1 .. 2^31 - 1,
\* that can be written into the packet's id field.
C19_ValidInt32Id ==
    last.op = "id" =>
        /\ last.ret >= 1
        /\ last.ret <= Int32Max
        /\ last.ok

\* the step was a whole packet whose id is the id of a packet written for
\* command c, which has been settled and has left the queue, while another
\* command, none of whose packets has that id, was the head
LateReplyFor(c) ==
    /\ last.op = "data"
    /\ last.chunk.len = "full"
    /\ last.head # NoCommand
    /\ c # last.head.cid
    /\ Settled(c)
    /\ \A j \in DOMAIN queue : queue[j].cid # c
    /\ \E i \in DOMAIN wire : wire[i].cid = c /\ wire[i].id = last.chunk.id
    /\ last.chunk.id \notin {last.head.packet.id, last.head.boundary.id}

\* C20: a reply addressed to a command that has left the queue, arriving
\* while another command with other ids is the head, is not appended to the
\* head's collected packets and does not complete it: the head stays the
\* head, pending, with the packets it had, and no promise is settled.
C20_LateReplyIgnored ==
    \A c \in DOMAIN futures :
        LateReplyFor(c) =>
            /\ last.out = NoOut
            /\ Len(queue) > 0
            /\ queue[1].cid = last.head.cid
            /\ queue[1].data = last.head.data
            /\ futures[last.head.cid].status = "pending"

\* a RESPONSE_VALUE for a send() command that was rejected arrives while a
\* later send() command, written and waiting for its reply, is the head
C20_Witness ==
    \E c \in DOMAIN futures :
        /\ LateReplyFor(c)
        /\ futures[c].kind = "send"
        /\ futures[c].status = "rejected"
        /\ PacketType(last.chunk) = SERVERDATA_RESPONSE_VALUE
        /\ PacketType(last.head.packet) = SERVERDATA_EXECCOMMAND
        /\ last.head.sent

\* the head command was written to an earlier socket and is still the head
StaleHead ==
    /\ Len(queue) > 0
    /\ queue[1].sent
    /\ \A i \in DOMAIN wire :
           wire[i].cid = queue[1].cid => wire[i].gen < socket.gen

\* some timer can still fire
TimerPending == \E t \in DOMAIN timers : timers[t].st = "active"

\* C21: after a disconnect() with a command or the AUTH exchange in flight
\* and a connect() after it, (1) the new attempt's AUTH packet is written to
\* the new socket when it opens, (2) the new attempt is not left unsettled
\* with no socket and no timer that could settle it, and (3) the new socket
\* is not destroyed unless an attempt made on it was rejected.
C21_ReconnectWorks ==
    /\ last.op = "open" /\ StaleHead =>
           \E i \in DOMAIN wire :
               /\ wire[i].cid = Len(futures)
               /\ wire[i].gen = socket.gen
    /\ \A k \in DOMAIN attempts :
           /\ socket.gen > 1
           /\ attempts[k].gen = socket.gen
           /\ attempts[k].status \in {"connecting", "authenticating"}
           => socket.st # "null" \/ TimerPending
    /\ socket.gen > 1 /\ socket.st = "null" =>
           \E k \in DOMAIN attempts :
               /\ attempts[k].gen = socket.gen
               /\ attempts[k].status = "rejected"

====
